---- MODULE Spec2Model ----
(***************************************************************************)
(* A model of the DevOps chat agent: the three-node pipeline               *)
(* router_node -> tool_node -> llm_node of simplechat_agent.py, the tools  *)
(* of agent_tools/ and the streaming endpoint of server.py.                *)
(*                                                                         *)
(* Text is kept as TLA+ strings; a character is a string of length one.    *)
(* An optional value (Python None or a value) is a sequence of length 0    *)
(* or 1: None == <<>>, Some(v) == <<v>>.                                   *)
(***************************************************************************)
EXTENDS Integers, Sequences, FiniteSets, TLC

(***************************************************************************)
(* Strings: str.strip, str.lower, str.startswith and the pieces of the     *)
(* regular expressions the router uses.                                    *)
(***************************************************************************)
None == <<>>

Some(v) == <<v>>

Char(s, i) == SubSeq(s, i, i)

From(s, i) == SubSeq(s, i, Len(s))

SpaceChars == {" ", "\t"}

LowerLetters == <<"a","b","c","d","e","f","g","h","i","j","k","l","m",
                  "n","o","p","q","r","s","t","u","v","w","x","y","z">>

UpperLetters == <<"A","B","C","D","E","F","G","H","I","J","K","L","M",
                  "N","O","P","Q","R","S","T","U","V","W","X","Y","Z">>

Digits == {"0","1","2","3","4","5","6","7","8","9"}

Range(f) == {f[i] : i \in DOMAIN f}

\* \w of the re module: letters, digits and the underscore
WordChars == Range(LowerLetters) \cup Range(UpperLetters) \cup Digits \cup {"_"}

\* [A-Za-z0-9_-]
SlugChars == WordChars \cup {"-"}

\* [A-Za-z0-9._-]
NameChars == SlugChars \cup {"."}

\* [A-Za-z0-9_\-\/]
RefChars == SlugChars \cup {"/"}

LowerChar(c) ==
    IF \E i \in 1..26 : UpperLetters[i] = c
    THEN LowerLetters[CHOOSE i \in 1..26 : UpperLetters[i] = c]
    ELSE c

RECURSIVE LowerFrom(_, _)
LowerFrom(s, i) ==
    IF i > Len(s) THEN "" ELSE LowerChar(Char(s, i)) \o LowerFrom(s, i + 1)

\* str.lower()
Lower(s) == LowerFrom(s, 1)

\* index of the first character at or after i that is not white space
\* (Len(s) + 1 when there is none)
SkipSpaces(s, i) ==
    IF \E j \in i..Len(s) : Char(s, j) \notin SpaceChars
    THEN CHOOSE j \in i..Len(s) :
            /\ Char(s, j) \notin SpaceChars
            /\ \A k \in i..(j - 1) : Char(s, k) \in SpaceChars
    ELSE Len(s) + 1

\* str.strip()
Strip(s) ==
    LET a == SkipSpaces(s, 1)
    IN  IF a > Len(s) THEN ""
        ELSE LET b == CHOOSE j \in a..Len(s) :
                        /\ Char(s, j) \notin SpaceChars
                        /\ \A k \in (j + 1)..Len(s) : Char(s, k) \in SpaceChars
             IN  SubSeq(s, a, b)

\* the literal lit stands in s at index i
MatchAt(s, i, lit) ==
    /\ i >= 1
    /\ i + Len(lit) - 1 <= Len(s)
    /\ SubSeq(s, i, i + Len(lit) - 1) = lit

\* the same under re.I
MatchAtCI(s, i, lit) ==
    /\ i >= 1
    /\ i + Len(lit) - 1 <= Len(s)
    /\ Lower(SubSeq(s, i, i + Len(lit) - 1)) = Lower(lit)

\* str.startswith
StartsWith(s, lit) == MatchAt(s, 1, lit)

IsWordAt(s, i) == i >= 1 /\ i <= Len(s) /\ Char(s, i) \in WordChars

\* \b between index i - 1 and index i
WordBoundary(s, i) == IsWordAt(s, i - 1) # IsWordAt(s, i)

\* re.search(r"\b<lit>\b", s)
SearchWord(s, lit) ==
    \E i \in 1..Len(s) :
        /\ WordBoundary(s, i)
        /\ MatchAt(s, i, lit)
        /\ WordBoundary(s, i + Len(lit))

\* re.search(r"<lit>", s)
SearchPlain(s, lit) == \E i \in 1..Len(s) : MatchAt(s, i, lit)

\* re.search(r"^\s*<lit>", s)
SearchStart(s, lit) == MatchAt(s, SkipSpaces(s, 1), lit)

\* re.search(r"^\s*<lit>\b", s)
SearchStartWord(s, lit) ==
    LET i == SkipSpaces(s, 1)
    IN  MatchAt(s, i, lit) /\ WordBoundary(s, i + Len(lit))

\* re.search(r"\b<pre>.<post>\b", s): the dot is any one character
SearchWordDot(s, pre, post) ==
    \E i \in 1..Len(s) :
        /\ WordBoundary(s, i)
        /\ MatchAt(s, i, pre)
        /\ i + Len(pre) <= Len(s)
        /\ MatchAt(s, i + Len(pre) + 1, post)
        /\ WordBoundary(s, i + Len(pre) + 1 + Len(post))

\* the helper match(regex_list) of router_node for a list of \b...\b patterns
MatchAnyWord(s, lits) == \E lit \in lits : SearchWord(s, lit)

\* end of the longest run of characters of cs that starts at i (i - 1: no run)
RunEnd(s, i, cs) ==
    IF i <= Len(s) /\ Char(s, i) \in cs
    THEN CHOOSE j \in i..Len(s) :
            /\ \A k \in i..j : Char(s, k) \in cs
            /\ (j = Len(s) \/ Char(s, j + 1) \notin cs)
    ELSE i - 1

\* the least element of a non-empty set of integers
Min(S) == CHOOSE x \in S : \A y \in S : x <= y

(***************************************************************************)
(* The router's argument extractors (the re.search calls of router_node).  *)
(* Each returns None or Some(captured groups), as the leftmost match of    *)
(* the expression would.                                                   *)
(***************************************************************************)

\* re.search(r"read (?:file )?(.+)$", msg, re.I): group 1
ReadGroup(msg) ==
    LET hits == {i \in 1..Len(msg) :
                    MatchAtCI(msg, i, "read ") /\ i + 5 <= Len(msg)}
    IN  IF hits = {} THEN None
        ELSE LET j == Min(hits) + 5
             IN  IF MatchAtCI(msg, j, "file ") /\ j + 5 <= Len(msg)
                 THEN Some(From(msg, j + 5))
                 ELSE Some(From(msg, j))

\* ([^\:]+):\s*(.+)$ tried at index k: None or Some(<<group 1, group 2>>)
ColonFormAt(msg, k) ==
    LET colons == {c \in k..Len(msg) : Char(msg, c) = ":"}
    IN  IF colons = {} THEN None
        ELSE LET c == Min(colons)
                 t == SkipSpaces(msg, c + 1)
             IN  IF c = k \/ c = Len(msg) THEN None
                 ELSE IF t <= Len(msg)
                      THEN Some(<<SubSeq(msg, k, c - 1), From(msg, t)>>)
                      ELSE Some(<<SubSeq(msg, k, c - 1), From(msg, Len(msg))>>)

\* the verbs of the two file-write expressions of router_node
WriteVerbs == {"write ", "create ", "update ", "edit "}

\* index after the verb that stands at index i (0: no verb there)
AfterVerb(msg, i) ==
    IF \E v \in WriteVerbs : MatchAtCI(msg, i, v)
    THEN i + Len(CHOOSE v \in WriteVerbs : MatchAtCI(msg, i, v))
    ELSE 0

\* (?:file )?([^\:]+):\s*(.+)$ tried at index j, the optional part first
WriteFormAt(msg, j) ==
    IF MatchAtCI(msg, j, "file ") /\ ColonFormAt(msg, j + 5) # None
    THEN ColonFormAt(msg, j + 5)
    ELSE ColonFormAt(msg, j)

\* re.search(r"(?:write|create|update|edit) (?:file )?([^\:]+):\s*(.+)$", msg, re.I)
WriteGroups(msg) ==
    LET hits == {i \in 1..Len(msg) :
                    AfterVerb(msg, i) > 0 /\ WriteFormAt(msg, AfterVerb(msg, i)) # None}
    IN  IF hits = {} THEN None ELSE WriteFormAt(msg, AfterVerb(msg, Min(hits)))

\* re.search(r"(?:write|create|update|edit) (?:file )?(.+)$", msg, re.I): group 1
WritePathGroup(msg) ==
    LET hits == {i \in 1..Len(msg) :
                    AfterVerb(msg, i) > 0 /\ AfterVerb(msg, i) <= Len(msg)}
    IN  IF hits = {} THEN None
        ELSE LET j == AfterVerb(msg, Min(hits))
             IN  IF MatchAtCI(msg, j, "file ") /\ j + 5 <= Len(msg)
                 THEN Some(From(msg, j + 5))
                 ELSE Some(From(msg, j))

\* the alternatives of the repository-name expression, in the order written
RepoWords == <<"repo", "repository", "repo called", "repo named">>

\* \s+([A-Za-z0-9._-]+) tried at index p: None or Some(name)
SpacedNameAt(msg, p) ==
    LET w == SkipSpaces(msg, p)
    IN  IF w > p /\ w <= Len(msg) /\ Char(msg, w) \in NameChars
        THEN Some(SubSeq(msg, w, RunEnd(msg, w, NameChars)))
        ELSE None

\* the alternatives that match at index i, by their place in RepoWords
RepoAltsAt(msg, i) ==
    {a \in 1..Len(RepoWords) :
        /\ MatchAtCI(msg, i, RepoWords[a])
        /\ SpacedNameAt(msg, i + Len(RepoWords[a])) # None}

\* re.search(r"(?:repo|repository|repo called|repo named)\s+([A-Za-z0-9._-]+)", msg, re.I)
RepoNameGroup(msg) ==
    LET hits == {i \in 1..Len(msg) : RepoAltsAt(msg, i) # {}}
    IN  IF hits = {} THEN None
        ELSE LET i == Min(hits)
                 a == Min(RepoAltsAt(msg, i))
             IN  SpacedNameAt(msg, i + Len(RepoWords[a]))

\* ([A-Za-z0-9_-]+)/([A-Za-z0-9_-]+) tried at index i: 0 or the index of the slash
SlashAt(msg, i) ==
    LET e == RunEnd(msg, i, SlugChars)
    IN  IF /\ e >= i
           /\ e + 2 <= Len(msg)
           /\ Char(msg, e + 1) = "/"
           /\ Char(msg, e + 2) \in SlugChars
        THEN e + 1
        ELSE 0

\* re.search(r"([A-Za-z0-9_-]+)/([A-Za-z0-9_-]+)", msg): None or Some(<<owner, repo>>)
OwnerRepoGroups(msg) ==
    LET hits == {i \in 1..Len(msg) : SlashAt(msg, i) > 0}
    IN  IF hits = {} THEN None
        ELSE LET i == Min(hits)
                 sl == SlashAt(msg, i)
             IN  Some(<<SubSeq(msg, i, sl - 1),
                        SubSeq(msg, sl + 1, RunEnd(msg, sl + 1, SlugChars))>>)

\* from\s+([..]+)\s+to\s+([..]+) tried at index i: None or Some(<<head, base>>)
FromToAt(msg, i) ==
    LET w1 == SkipSpaces(msg, i + 4)
        e1 == RunEnd(msg, w1, RefChars)
        w2 == SkipSpaces(msg, e1 + 1)
        w3 == SkipSpaces(msg, w2 + 2)
        e3 == RunEnd(msg, w3, RefChars)
    IN  IF /\ MatchAt(msg, i, "from")
           /\ w1 > i + 4 /\ e1 >= w1
           /\ w2 > e1 + 1 /\ MatchAt(msg, w2, "to")
           /\ w3 > w2 + 2 /\ e3 >= w3
        THEN Some(<<SubSeq(msg, w1, e1), SubSeq(msg, w3, e3)>>)
        ELSE None

\* re.search(r"from\s+([A-Za-z0-9_\-\/]+)\s+to\s+([A-Za-z0-9_\-\/]+)", msg)
FromToGroups(msg) ==
    LET hits == {i \in 1..Len(msg) : FromToAt(msg, i) # None}
    IN  IF hits = {} THEN None ELSE FromToAt(msg, Min(hits))

\* (?:for\s+([A-Za-z0-9_-]+/[A-Za-z0-9_-]+))? tried at index p:
\* <<group 1 or None, index after the part>>
ForRepoAt(msg, p) ==
    LET w  == SkipSpaces(msg, p + 3)
        sl == SlashAt(msg, w)
    IN  IF MatchAtCI(msg, p, "for") /\ w > p + 3 /\ sl > 0
        THEN <<Some(SubSeq(msg, w, RunEnd(msg, sl + 1, SlugChars))),
               RunEnd(msg, sl + 1, SlugChars) + 1>>
        ELSE <<None, p>>

\* (?: with|:)? tried at index q: the index after the part
AfterWith(msg, q) ==
    IF MatchAtCI(msg, q, " with") THEN q + 5
    ELSE IF MatchAt(msg, q, ":") THEN q + 1
    ELSE q

\* re.search(r"update readme (?:for\s+(..))?(?: with|:)?\s*(.+)?", msg, re.I):
\* None or Some(<<group 1 or None, group 2 or None>>)
ReadmeGroups(msg) ==
    LET hits == {i \in 1..Len(msg) : MatchAtCI(msg, i, "update readme ")}
    IN  IF hits = {} THEN None
        ELSE LET fr == ForRepoAt(msg, Min(hits) + 14)
                 t  == SkipSpaces(msg, AfterWith(msg, fr[2]))
             IN  Some(<<fr[1], IF t <= Len(msg) THEN Some(From(msg, t)) ELSE None>>)

\* re.search(r"run:\s*(.+)$", msg, re.I): group 1
RunGroup(msg) ==
    LET hits == {i \in 1..Len(msg) : MatchAtCI(msg, i, "run:") /\ i + 4 <= Len(msg)}
    IN  IF hits = {} THEN None
        ELSE LET t == SkipSpaces(msg, Min(hits) + 4)
             IN  IF t <= Len(msg) THEN Some(From(msg, t))
                 ELSE Some(From(msg, Len(msg)))

\* repo_spec.split("/"): the text before and after the slash of an owner/repo pair
SplitSlash(spec) ==
    LET sl == Min({i \in 1..Len(spec) : Char(spec, i) = "/"})
    IN  <<SubSeq(spec, 1, sl - 1), From(spec, sl + 1)>>

\* `x or None` of an optional string: the empty string counts as absent
Truthy(opt) == IF opt # None /\ opt[1] # "" THEN opt ELSE None

(***************************************************************************)
(* router_node.  A tool call is [tool, args]; args has every key some rule *)
(* sets, each an optional value: tool_node reads args with dict.get, which *)
(* does not tell a key that is absent from one that is None.               *)
(***************************************************************************)
NoArgs ==
    [action |-> "", path |-> None, content |-> None, name |-> None,
     owner |-> None, repo |-> None, head |-> None, base |-> None,
     command |-> None, text |-> None]

ToolCall(tool, action, msg, args) ==
    [tool |-> tool, args |-> [args EXCEPT !.action = action, !.text = Some(msg)]]

\* the pattern lists of the ten match(...) tests, in the order router_node tries them
MatchesRule(lm, n) ==
    CASE n = 1  -> MatchAnyWord(lm, {"read file", "readfile", "show file", "open file"})
      [] n = 2  -> MatchAnyWord(lm, {"write file", "create file", "add file",
                                     "update file", "edit file"})
      [] n = 3  -> MatchAnyWord(lm, {"create repo", "create repository", "make repo",
                                     "make a repo", "new repo"})
      [] n = 4  -> MatchAnyWord(lm, {"list repos", "show repos", "my github repos",
                                     "repositories"})
      [] n = 5  -> \/ MatchAnyWord(lm, {"update readme", "update README"})
                   \/ SearchWordDot(lm, "edit README", "md")
      [] n = 6  -> MatchAnyWord(lm, {"create pr", "create pull request", "open pr",
                                     "open pull request", "make a pull request"})
      [] n = 7  -> MatchAnyWord(lm, {"list branches", "show branches", "branches"})
      [] n = 8  -> MatchAnyWord(lm, {"push my code", "push code", "push repo"})
      [] n = 9  -> MatchAnyWord(lm, {"fix my repo", "fix repo", "make tests pass",
                                     "run tests"})
      [] n = 10 -> \/ SearchStart(lm, "run:")
                   \/ MatchAnyWord(lm, {"execute", "shell"})
                   \/ SearchStartWord(lm, "ls")
                   \/ SearchStartWord(lm, "git")
                   \/ SearchPlain(lm, "pytest")
                   \/ SearchPlain(lm, "npm")

\* a variant of FirstRule that tests the branch-listing rule before the
\* repository rules
FirstRuleBranchesEarly(lm) ==
    IF MatchesRule(lm, 1) THEN 1
    ELSE IF MatchesRule(lm, 2) THEN 2
    ELSE IF MatchesRule(lm, 7) THEN 7
    ELSE IF MatchesRule(lm, 3) THEN 3
    ELSE IF MatchesRule(lm, 4) THEN 4
    ELSE IF MatchesRule(lm, 5) THEN 5
    ELSE IF MatchesRule(lm, 6) THEN 6
    ELSE IF MatchesRule(lm, 8) THEN 8
    ELSE IF MatchesRule(lm, 9) THEN 9
    ELSE IF MatchesRule(lm, 10) THEN 10
    ELSE 0

\* the cascade of `if match([...]):` tests: the number of the rule whose
\* branch router_node takes (0: the default, no tool)
FirstRule(lm) ==
    IF MatchesRule(lm, 1) THEN 1
    ELSE IF MatchesRule(lm, 2) THEN 2
    ELSE IF MatchesRule(lm, 3) THEN 3
    ELSE IF MatchesRule(lm, 4) THEN 4
    ELSE IF MatchesRule(lm, 5) THEN 5
    ELSE IF MatchesRule(lm, 6) THEN 6
    ELSE IF MatchesRule(lm, 7) THEN 7
    ELSE IF MatchesRule(lm, 8) THEN 8
    ELSE IF MatchesRule(lm, 9) THEN 9
    ELSE IF MatchesRule(lm, 10) THEN 10
    ELSE 0

StripOpt(opt) == IF opt = None THEN None ELSE Some(Strip(opt[1]))

\* a variant of PushIntentCall that asks for the push itself
PushIntentCallPushing(msg) ==
    ToolCall("shell", "push_intent", msg, [NoArgs EXCEPT !.command = Some("git push")])

\* the tool call of the push-intent rule: a status check, never a push
PushIntentCall(msg) ==
    ToolCall("shell", "push_intent", msg, [NoArgs EXCEPT !.command = Some("git status -b")])

\* the tool call the rule numbered n builds from the message
RuleCall(n, msg, envOwner, envRepo) ==
    CASE n = 1 ->
            ToolCall("file", "read", msg,
                     [NoArgs EXCEPT !.path = StripOpt(ReadGroup(msg))])
      [] n = 2 ->
            LET m == WriteGroups(msg)
            IN  IF m # None
                THEN ToolCall("file", "write", msg,
                              [NoArgs EXCEPT !.path = Some(Strip(m[1][1])),
                                             !.content = Some(Strip(m[1][2]))])
                ELSE ToolCall("file", "write", msg,
                              [NoArgs EXCEPT !.path = StripOpt(WritePathGroup(msg))])
      [] n = 3 ->
            ToolCall("github", "create_repo", msg,
                     [NoArgs EXCEPT !.name = RepoNameGroup(msg)])
      [] n = 4 ->
            ToolCall("github", "list_repos", msg, NoArgs)
      [] n = 5 ->
            LET m    == ReadmeGroups(msg)
                spec == IF m # None THEN m[1][1] ELSE None
                body == IF m # None THEN StripOpt(m[1][2]) ELSE None
            IN  ToolCall("github", "update_file", msg,
                         [NoArgs EXCEPT
                            !.owner = IF spec # None THEN Some(SplitSlash(spec[1])[1]) ELSE None,
                            !.repo = IF spec # None THEN Some(SplitSlash(spec[1])[2]) ELSE None,
                            !.path = Some("README.md"),
                            !.content = body])
      [] n = 6 ->
            LET m  == OwnerRepoGroups(msg)
                mm == FromToGroups(msg)
            IN  ToolCall("github", "create_pr", msg,
                         [NoArgs EXCEPT
                            !.owner = IF m # None THEN Some(m[1][1]) ELSE Truthy(envOwner),
                            !.repo = IF m # None THEN Some(m[1][2]) ELSE Truthy(envRepo),
                            !.head = IF mm # None THEN Some(mm[1][1]) ELSE None,
                            !.base = IF mm # None THEN Some(mm[1][2]) ELSE None])
      [] n = 7 ->
            LET m == OwnerRepoGroups(msg)
            IN  ToolCall("github", "list_branches", msg,
                         [NoArgs EXCEPT
                            !.owner = IF m # None THEN Some(m[1][1]) ELSE envOwner,
                            !.repo = IF m # None THEN Some(m[1][2]) ELSE envRepo])
      [] n = 8 -> PushIntentCall(msg)
      [] n = 9 ->
            ToolCall("repo", "fix_repo", msg, NoArgs)
      [] n = 10 ->
            LET m == RunGroup(msg)
            IN  ToolCall("shell", "exec", msg,
                         [NoArgs EXCEPT
                            !.command = IF m # None THEN Some(Strip(m[1])) ELSE Some(msg)])

\* router_node: the update it returns, None for {} and Some(call) for
\* {"tool_call": call}
router_node(msgs, envOwner, envRepo) ==
    IF msgs = <<>> THEN None
    ELSE LET msg == Strip(msgs[Len(msgs)].content)
             n   == FirstRule(Lower(msg))
         IN  IF n = 0 THEN None ELSE Some(RuleCall(n, msg, envOwner, envRepo))

(***************************************************************************)
(* agent_tools/shell_tool.py                                               *)
(***************************************************************************)
WHITELIST ==
    <<"ls", "pwd", "cat", "echo", "git status", "git rev-parse", "git log",
      "python", "pip", "npm", "pytest">>

\* shlex.split(s): the POSIX tokeniser, white space splitting, no comments.
\* st is the tokeniser's state, tok the token being read, started whether a
\* token is being read (a quoted empty token counts).  None stands for the
\* ValueError of an unclosed quotation or a trailing escape character.
RECURSIVE ShlexScan(_, _, _, _, _, _)
ShlexScan(s, i, st, tok, started, toks) ==
    IF i > Len(s)
    THEN IF st \in {"sq", "dq", "esc_word", "esc_dq"} THEN None
         ELSE Some(IF started THEN Append(toks, tok) ELSE toks)
    ELSE LET c == Char(s, i)
         IN  CASE st = "sp" ->
                    IF c \in SpaceChars THEN ShlexScan(s, i + 1, "sp", "", FALSE, toks)
                    ELSE IF c = "\\" THEN ShlexScan(s, i + 1, "esc_word", "", TRUE, toks)
                    ELSE IF c = "'" THEN ShlexScan(s, i + 1, "sq", "", TRUE, toks)
                    ELSE IF c = "\"" THEN ShlexScan(s, i + 1, "dq", "", TRUE, toks)
                    ELSE ShlexScan(s, i + 1, "word", c, TRUE, toks)
               [] st = "word" ->
                    IF c \in SpaceChars
                    THEN ShlexScan(s, i + 1, "sp", "", FALSE, Append(toks, tok))
                    ELSE IF c = "\\" THEN ShlexScan(s, i + 1, "esc_word", tok, TRUE, toks)
                    ELSE IF c = "'" THEN ShlexScan(s, i + 1, "sq", tok, TRUE, toks)
                    ELSE IF c = "\"" THEN ShlexScan(s, i + 1, "dq", tok, TRUE, toks)
                    ELSE ShlexScan(s, i + 1, "word", tok \o c, TRUE, toks)
               [] st = "sq" ->
                    IF c = "'" THEN ShlexScan(s, i + 1, "word", tok, TRUE, toks)
                    ELSE ShlexScan(s, i + 1, "sq", tok \o c, TRUE, toks)
               [] st = "dq" ->
                    IF c = "\"" THEN ShlexScan(s, i + 1, "word", tok, TRUE, toks)
                    ELSE IF c = "\\" THEN ShlexScan(s, i + 1, "esc_dq", tok, TRUE, toks)
                    ELSE ShlexScan(s, i + 1, "dq", tok \o c, TRUE, toks)
               [] st = "esc_word" ->
                    ShlexScan(s, i + 1, "word", tok \o c, TRUE, toks)
               [] st = "esc_dq" ->
                    IF c \in {"\\", "\""}
                    THEN ShlexScan(s, i + 1, "dq", tok \o c, TRUE, toks)
                    ELSE ShlexScan(s, i + 1, "dq", (tok \o "\\") \o c, TRUE, toks)

ShlexSplit(s) == ShlexScan(s, 1, "sp", "", FALSE, <<>>)

\* run_shell's default deadline, in seconds
timeout == 20

\* how long a process may run, in seconds: less or more than the deadline
RunTimes == {timeout - 1, timeout + 1}

\* what may happen when run_shell creates its process: it cannot be created,
\* or it is created and would run for some time if nobody stopped it
ProcOutcomes ==
    {[spawns |-> FALSE, runs |-> 0]} \cup {[spawns |-> TRUE, runs |-> t] : t \in RunTimes}

\* a variant of Whitelisted that looks for the entry anywhere in the command
WhitelistedAnywhere(cmd_trim) ==
    \E i \in 1..Len(WHITELIST) : SearchPlain(cmd_trim, WHITELIST[i])

\* the prefix test of run_shell
Whitelisted(cmd_trim) ==
    \E i \in 1..Len(WHITELIST) : StartsWith(cmd_trim, WHITELIST[i])

\* one call of run_shell: the command it was given, whether it raised, what
\* it returned, the argument vectors of the processes it created and of those
\* it killed, how long its process would have run and how long it waited
ShellCall(command, raised, result, spawned, killed, runs, waited) ==
    [fn |-> "run_shell", arg |-> command, raised |-> raised, result |-> result,
     spawned |-> spawned, killed |-> killed, io |-> <<>>,
     runs |-> runs, waited |-> waited]

\* a variant of run_shell that waits for the process without a deadline
run_shell_unbounded(command, outcome) ==
    LET cmd_trim == Strip(command)
        args     == ShlexSplit(cmd_trim)
    IN  IF ~Whitelisted(cmd_trim)
        THEN ShellCall(command, FALSE,
                       Some([ok |-> FALSE, error |-> "command_not_whitelisted",
                             stdout |-> "", stderr |-> "Command not allowed"]),
                       <<>>, <<>>, 0, 0)
        ELSE IF args = None
        THEN ShellCall(command, TRUE, None, <<>>, <<>>, 0, 0)
        ELSE IF args[1] = <<>> \/ ~outcome.spawns
        THEN ShellCall(command, FALSE,
                       Some([ok |-> FALSE, error |-> "exec_error",
                             stdout |-> "", stderr |-> "spawn failed"]),
                       <<>>, <<>>, 0, 0)
        ELSE ShellCall(command, FALSE,
                       Some([ok |-> TRUE, stdout |-> "out", stderr |-> ""]),
                       <<args[1]>>, <<>>, outcome.runs, outcome.runs)

\* run_shell(command, cwd, timeout)
run_shell(command, outcome) ==
    LET cmd_trim == Strip(command)
        args     == ShlexSplit(cmd_trim)
    IN  IF ~Whitelisted(cmd_trim)
        THEN ShellCall(command, FALSE,
                       Some([ok |-> FALSE, error |-> "command_not_whitelisted",
                             stdout |-> "", stderr |-> "Command not allowed"]),
                       <<>>, <<>>, 0, 0)
        ELSE IF args = None
        THEN ShellCall(command, TRUE, None, <<>>, <<>>, 0, 0)
        ELSE IF args[1] = <<>> \/ ~outcome.spawns
        THEN ShellCall(command, FALSE,
                       Some([ok |-> FALSE, error |-> "exec_error",
                             stdout |-> "", stderr |-> "spawn failed"]),
                       <<>>, <<>>, 0, 0)
        ELSE IF outcome.runs > timeout
        THEN ShellCall(command, FALSE,
                       Some([ok |-> FALSE, error |-> "timeout",
                             stdout |-> "", stderr |-> "Command timed out"]),
                       <<args[1]>>, <<args[1]>>, outcome.runs, timeout)
        ELSE ShellCall(command, FALSE,
                       Some([ok |-> TRUE, stdout |-> "out", stderr |-> ""]),
                       <<args[1]>>, <<>>, outcome.runs, outcome.runs)

(***************************************************************************)
(* agent_tools/file_tool.py.  A location is the sequence of its path       *)
(* components from the file system's root.                                 *)
(***************************************************************************)
PROJECT_ROOT == <<"srv", "app">>

\* a symbolic link inside the project root that leads out of it
LinkTarget(p) == IF p = PROJECT_ROOT \o <<"lnk">> THEN <<"etc">> ELSE p

\* path.split("/") from index i on, tok being the component read so far
RECURSIVE SplitFrom(_, _, _)
SplitFrom(s, i, tok) ==
    IF i > Len(s) THEN <<tok>>
    ELSE IF Char(s, i) = "/" THEN <<tok>> \o SplitFrom(s, i + 1, "")
    ELSE SplitFrom(s, i + 1, tok \o Char(s, i))

\* Path.resolve(): follow the components from the location at
RECURSIVE Walk(_, _)
Walk(at, parts) ==
    IF parts = <<>> THEN at
    ELSE LET c == Head(parts)
         IN  IF c \in {"", "."} THEN Walk(at, Tail(parts))
             ELSE IF c = ".."
             THEN Walk(IF at = <<>> THEN at ELSE SubSeq(at, 1, Len(at) - 1), Tail(parts))
             ELSE Walk(LinkTarget(Append(at, c)), Tail(parts))

\* (PROJECT_ROOT / path).resolve(): an absolute path replaces the root
Resolve(path) ==
    Walk(IF StartsWith(path, "/") THEN <<>> ELSE PROJECT_ROOT, SplitFrom(path, 1, ""))

\* PROJECT_ROOT in p.parents or p == PROJECT_ROOT
UnderRoot(p) ==
    /\ Len(p) >= Len(PROJECT_ROOT)
    /\ SubSeq(p, 1, Len(PROJECT_ROOT)) = PROJECT_ROOT

\* a variant of safe_path that tests the path as written, not resolved
safe_path_unresolved(path) ==
    LET p == (IF StartsWith(path, "/") THEN <<>> ELSE PROJECT_ROOT)
                \o SelectSeq(SplitFrom(path, 1, ""), LAMBDA c : c # "")
    IN  IF UnderRoot(p) THEN Some(Resolve(path)) ELSE None

\* safe_path(path): Some(location), or None for the PermissionError
safe_path(path) ==
    LET p == Resolve(path) IN IF UnderRoot(p) THEN Some(p) ELSE None

PermissionText == "Attempt to access outside project root"

\* what the file system may answer to a read or a write
FileOutcomes == {"ok", "not_found", "io_error"}

\* one call of read_file or write_file: the path it was given, what it
\* returned, and the file system operations it made
FileCall(fn, path, result, ops) ==
    [fn |-> fn, arg |-> path, raised |-> FALSE, result |-> Some(result),
     spawned |-> <<>>, killed |-> <<>>, io |-> ops]

FileOp(op, at) == [op |-> op, at |-> at]

\* read_file(path)
read_file(path, outcome) ==
    LET p == safe_path(path)
    IN  IF p = None
        THEN FileCall("read_file", path,
                      [ok |-> FALSE, error |-> PermissionText, content |-> ""], <<>>)
        ELSE IF outcome = "not_found"
        THEN FileCall("read_file", path,
                      [ok |-> FALSE, error |-> "not_found", content |-> ""],
                      <<FileOp("exists", p[1])>>)
        ELSE IF outcome = "io_error" \/ p[1] = PROJECT_ROOT
        THEN FileCall("read_file", path,
                      [ok |-> FALSE, error |-> "io_error", content |-> ""],
                      <<FileOp("exists", p[1]), FileOp("read", p[1])>>)
        ELSE FileCall("read_file", path, [ok |-> TRUE, content |-> "hello"],
                      <<FileOp("exists", p[1]), FileOp("read", p[1])>>)

\* write_file(path, content, create_dirs); the outcome "not_found" is that of
\* a parent directory that cannot be made or is not there
write_file(path, content, create_dirs, outcome) ==
    LET p  == safe_path(path)
        mk == IF create_dirs
              THEN <<FileOp("mkdir", SubSeq(p[1], 1, Len(p[1]) - 1))>>
              ELSE <<>>
    IN  IF p = None
        THEN FileCall("write_file", path, [ok |-> FALSE, error |-> PermissionText], <<>>)
        ELSE IF outcome = "not_found"
        THEN FileCall("write_file", path, [ok |-> FALSE, error |-> "io_error"],
                      IF create_dirs THEN mk ELSE <<FileOp("write", p[1])>>)
        ELSE IF outcome = "io_error" \/ p[1] = PROJECT_ROOT
        THEN FileCall("write_file", path, [ok |-> FALSE, error |-> "io_error"],
                      Append(mk, FileOp("write", p[1])))
        ELSE FileCall("write_file", path, [ok |-> TRUE],
                      Append(mk, FileOp("write", p[1])))

(***************************************************************************)
(* agent_tools/github_tool.py.  A response body is [kind, ...] with kind   *)
(* "dict", "list" or "text".  Every operation returns                      *)
(* [raised, result, net]: net lists the requests sent, result is None when *)
(* an exception left the operation.                                        *)
(***************************************************************************)

\* what the network may answer to one request: the expected JSON body with a
\* success status, a success status with a body that is not JSON, an error
\* status, or no answer at all (the requests library raises)
NetOutcomes == {"ok", "ok_text", "fail", "exc"}

\* f"{x}" of an optional string
Fmt(opt) == IF opt = None THEN "None" ELSE opt[1]

Request(method, url) == [method |-> method, url |-> url]

\* _safe_request: the mapping it returns for the outcome o, body being the
\* JSON body of a successful answer
safe_request(o, body) ==
    CASE o = "ok"      -> [ok |-> TRUE, status |-> Some(200), data |-> body]
      [] o = "ok_text" -> [ok |-> TRUE, status |-> Some(200), data |-> [kind |-> "text"]]
      [] o = "fail"    -> [ok |-> FALSE, status |-> Some(422),
                           data |-> [kind |-> "dict", message |-> "rejected"]]
      [] o = "exc"     -> [ok |-> FALSE, error |-> "ConnectionError", status |-> None]

\* an operation's way out: a returned mapping, or an exception
Returned(res, net) == [raised |-> FALSE, result |-> Some(res), net |-> net]

Raised(net) == [raised |-> TRUE, result |-> None, net |-> net]

\* the tail shared by create_repository, list_branches and create_pull_request:
\* {"ok": False, "status": r["status"], "error": r["data"]}
ErrorOf(r, net) ==
    IF "data" \in DOMAIN r
    THEN Returned([ok |-> FALSE, status |-> r.status, error |-> r.data], net)
    ELSE Raised(net)

\* get_default_branch(owner, repo): result is Some(branch name)
get_default_branch(owner, repo, o) ==
    LET net == <<Request("GET", "/repos/" \o Fmt(owner) \o "/" \o Fmt(repo))>>
        r   == safe_request(o, [kind |-> "dict", default_branch |-> "main"])
    IN  IF r.ok
        THEN IF r.data.kind = "dict" THEN Returned("main", net) ELSE Raised(net)
        ELSE Returned("main", net)

\* create_repository(name, description, private)
create_repository(name, o) ==
    LET net == <<Request("POST", "/user/repos")>>
        r   == safe_request(o, [kind |-> "dict", name |-> name])
    IN  IF r.ok THEN Returned([ok |-> TRUE, data |-> r.data], net)
        ELSE ErrorOf(r, net)

\* create_or_update_file(owner, repo, path, content, message); o1, o2, o3 are
\* the outcomes of its three requests, the last one sent with requests.put
create_or_update_file(owner, repo, path, content, o1, o2, o3) ==
    IF Truthy(owner) = None \/ Truthy(repo) = None \/ Truthy(path) = None
    THEN Returned([ok |-> FALSE, error |-> "Missing owner/repo/path"], <<>>)
    ELSE LET br  == get_default_branch(owner, repo, o1)
             url == "/repos/" \o Fmt(owner) \o "/" \o Fmt(repo) \o "/contents/" \o Fmt(path)
             r   == safe_request(o2, [kind |-> "dict", sha |-> "abc"])
             sha == r.ok /\ r.data.kind = "dict"
             net == br.net \o <<Request("GET", url),
                                [method |-> "PUT", url |-> url, content |-> content,
                                 sha |-> sha]>>
         IN  IF br.raised THEN br
             ELSE CASE o3 = "exc" -> Raised(net)
                    [] o3 = "ok" ->
                        Returned([ok |-> TRUE, status |-> 200,
                                  data |-> [kind |-> "dict"]], net)
                    [] o3 = "ok_text" ->
                        Returned([ok |-> TRUE, status |-> 200,
                                  data |-> [kind |-> "text"]], net)
                    [] o3 = "fail" ->
                        Returned([ok |-> FALSE, status |-> 422,
                                  data |-> [kind |-> "dict", message |-> "rejected"]], net)

per_page == 100

\* what the listing endpoint may answer to one page request: a list of n
\* repositories (0 <= n <= per_page), or one of the failures of NetOutcomes
PageOutcomes == {"full", "short", "empty", "ok_text", "fail", "exc"}

ShortPage == 37

PageLen(o) == CASE o = "full" -> per_page [] o = "short" -> ShortPage [] OTHER -> 0

\* a variant of ListFrom that leaves the loop on a short page before it has
\* collected the page's entries
RECURSIVE ListFromDropsLast(_, _, _, _)
ListFromDropsLast(pages, page, repos, net) ==
    LET o    == IF page <= Len(pages) THEN pages[page] ELSE "empty"
        sent == Append(net, [method |-> "GET", url |-> "/user/repos", page |-> page,
                             answer |-> o])
        got  == repos \o [i \in 1..PageLen(o) |-> [page |-> page, idx |-> i]]
    IN  IF o = "fail"
        THEN Returned([ok |-> FALSE, status |-> Some(422),
                       error |-> Some([kind |-> "dict", message |-> "rejected"])], sent)
        ELSE IF o = "exc"
        THEN Returned([ok |-> FALSE, status |-> None, error |-> None], sent)
        ELSE IF o = "ok_text" \/ PageLen(o) < per_page
        THEN Returned([ok |-> TRUE, total |-> Len(repos), repositories |-> repos], sent)
        ELSE ListFromDropsLast(pages, page + 1, got, sent)

\* the loop of list_repos from the request for page number page on; pages is
\* what the server answers page by page, and past its end it answers with an
\* empty list.  Each request is recorded with the answer it got.
RECURSIVE ListFrom(_, _, _, _)
ListFrom(pages, page, repos, net) ==
    LET o    == IF page <= Len(pages) THEN pages[page] ELSE "empty"
        sent == Append(net, [method |-> "GET", url |-> "/user/repos", page |-> page,
                             answer |-> o])
        got  == repos \o [i \in 1..PageLen(o) |-> [page |-> page, idx |-> i]]
        done == [ok |-> TRUE, total |-> Len(got), repositories |-> got]
    IN  IF o = "fail"
        THEN Returned([ok |-> FALSE, status |-> Some(422),
                       error |-> Some([kind |-> "dict", message |-> "rejected"])], sent)
        ELSE IF o = "exc"
        THEN Returned([ok |-> FALSE, status |-> None, error |-> None], sent)
        ELSE IF o = "ok_text" THEN Returned(done, sent)
        ELSE IF PageLen(o) < per_page THEN Returned(done, sent)
        ELSE ListFrom(pages, page + 1, got, sent)

\* list_repos(username)
list_repos(pages) == ListFrom(pages, 1, <<>>, <<>>)

\* list_branches(owner, repo)
list_branches(owner, repo, o) ==
    LET net == <<Request("GET", "/repos/" \o Fmt(owner) \o "/" \o Fmt(repo) \o "/branches")>>
        r   == safe_request(o, [kind |-> "list", names |-> <<"main", "dev">>])
    IN  IF r.ok
        THEN IF r.data.kind = "list"
             THEN Returned([ok |-> TRUE, branches |-> r.data.names], net)
             ELSE Raised(net)
        ELSE ErrorOf(r, net)

\* create_pull_request(owner, repo, head, base, title, body)
create_pull_request(owner, repo, head, base, o) ==
    IF Truthy(owner) = None \/ Truthy(repo) = None \/ head = "" \/ base = ""
    THEN Returned([ok |-> FALSE, error |-> "Missing owner/repo/head/base"], <<>>)
    ELSE LET net == <<[method |-> "POST",
                       url |-> "/repos/" \o Fmt(owner) \o "/" \o Fmt(repo) \o "/pulls",
                       head |-> head, base |-> base]>>
             r   == safe_request(o, [kind |-> "dict", number |-> 1])
         IN  IF r.ok THEN Returned([ok |-> TRUE, data |-> r.data], net)
             ELSE ErrorOf(r, net)

(***************************************************************************)
(* tool_node.  Its effect is [raised, result, calls, net]: result is the   *)
(* value of the "tool_result" key it returns (None or                      *)
(* Some([tool, result])), raised tells that an exception left the node,    *)
(* calls lists its calls of run_shell, read_file and write_file, and net   *)
(* the network requests it sent.                                           *)
(* tool_node(...) is the set of the effects the node can have, one for     *)
(* each way the processes, the file system and the network may answer.     *)
(***************************************************************************)
MaxPages == 3

\* the answers of the listing endpoint that list_repos gets to see: full
\* pages, then one last answer of any kind
PageRuns ==
    {[i \in 1..(k + 1) |-> IF i <= k THEN "full" ELSE last] :
        k \in 0..(MaxPages - 1), last \in PageOutcomes}

Effect(raised, result, calls, net) ==
    [raised |-> raised, result |-> result, calls |-> calls, net |-> net]

NoEffect == Effect(FALSE, None, <<>>, <<>>)

ToolResult(tool, res) == Some([tool |-> tool, result |-> res])

\* `a or b` of two optional strings, and `a or ""`
OrElse(a, b) == IF Truthy(a) # None THEN a ELSE b

Text(a) == IF a = None THEN "" ELSE a[1]

\* the effect of a branch that only returns a mapping
Plain(tool, res) == Effect(FALSE, ToolResult(tool, res), <<>>, <<>>)

\* the effect of a branch that ends with one github_tool operation
OfGithub(r) ==
    IF r.raised THEN Effect(TRUE, None, <<>>, r.net)
    ELSE Effect(FALSE, ToolResult("github", r.result[1]), <<>>, r.net)

\* a variant of shell_branch whose push_intent result takes its ok from the
\* status command
shell_branch_status_ok(args, o) ==
    LET res == run_shell(Text(args.command), o)
    IN  IF res.raised THEN Effect(TRUE, None, <<res>>, <<>>)
        ELSE IF args.action = "push_intent"
        THEN Effect(FALSE,
                    ToolResult("shell", [ok |-> res.result[1].ok,
                                         type |-> "push_intent_checked",
                                         status |-> res.result[1]]),
                    <<res>>, <<>>)
        ELSE Effect(FALSE, ToolResult("shell", res.result[1]), <<res>>, <<>>)

\* tool == "shell"
shell_branch(args, o) ==
    LET res == run_shell(Text(args.command), o)
    IN  IF res.raised THEN Effect(TRUE, None, <<res>>, <<>>)
        ELSE IF args.action = "push_intent"
        THEN Effect(FALSE,
                    ToolResult("shell", [ok |-> TRUE, type |-> "push_intent_checked",
                                         status |-> res.result[1]]),
                    <<res>>, <<>>)
        ELSE Effect(FALSE, ToolResult("shell", res.result[1]), <<res>>, <<>>)

\* tool == "file", action == "read"
file_read_branch(args, o) ==
    LET res == read_file(Text(OrElse(args.path, OrElse(args.text, None))), o)
    IN  Effect(FALSE, ToolResult("file", res.result[1]), <<res>>, <<>>)

\* tool == "file", action == "write"
file_write_branch(args, o) ==
    IF Truthy(args.path) = None
    THEN Plain("file", [ok |-> FALSE, error |-> "missing_path"])
    ELSE LET res == write_file(args.path[1], Text(OrElse(args.content, None)), TRUE, o)
         IN  Effect(FALSE, ToolResult("file", res.result[1]), <<res>>, <<>>)

\* tool == "github", action == "create_pr"; oa and ob are the outcomes of the
\* two requests that create the head branch, oc that of get_default_branch,
\* od that of the pull request itself
create_pr_branch(args, envOwner, envRepo, oa, ob, oc, od) ==
    LET owner == OrElse(args.owner, envOwner)
        repo  == OrElse(args.repo, envRepo)
        auto  == Truthy(args.head) = None
        head  == IF auto THEN "agent/auto-T" ELSE args.head[1]
        ref   == "/repos/" \o Fmt(owner) \o "/" \o Fmt(repo) \o "/git/ref/heads/"
                    \o (IF Truthy(args.base) = None THEN "main" ELSE args.base[1])
        refs  == "/repos/" \o Fmt(owner) \o "/" \o Fmt(repo) \o "/git/refs"
        net1  == IF ~auto THEN <<>>
                 ELSE IF oa = "ok"
                 THEN <<Request("GET", ref),
                        [method |-> "POST", url |-> refs, ref |-> "refs/heads/" \o head]>>
                 ELSE <<Request("GET", ref)>>
        br    == IF Truthy(args.base) = None
                 THEN get_default_branch(owner, repo, oc)
                 ELSE Returned(args.base[1], <<>>)
        pr    == create_pull_request(owner, repo, head, br.result[1], od)
    IN  IF Truthy(repo) = None
        THEN Plain("github", [ok |-> FALSE, error |-> "missing_repo"])
        ELSE IF br.raised THEN Effect(TRUE, None, <<>>, net1 \o br.net)
        ELSE IF pr.raised THEN Effect(TRUE, None, <<>>, net1 \o br.net \o pr.net)
        ELSE Effect(FALSE, ToolResult("github", pr.result[1]), <<>>,
                    net1 \o br.net \o pr.net)

\* tool == "github"
github_branch(args, envOwner, envRepo) ==
    LET owner == OrElse(args.owner, envOwner)
        repo  == OrElse(args.repo, envRepo)
    IN  CASE args.action = "list_repos" ->
                {OfGithub(list_repos(pages)) : pages \in PageRuns}
          [] args.action = "create_repo" ->
                IF Truthy(args.name) = None
                THEN {Plain("github", [ok |-> FALSE, error |-> "missing_name"])}
                ELSE {OfGithub(create_repository(args.name[1], o)) : o \in NetOutcomes}
          [] args.action = "update_file" ->
                IF Truthy(repo) = None
                THEN {Plain("github", [ok |-> FALSE, error |-> "missing_repo"])}
                ELSE {OfGithub(create_or_update_file(
                                  owner, repo, OrElse(args.path, Some("README.md")),
                                  Text(OrElse(args.content, OrElse(args.text, None))),
                                  o1, o2, o3)) :
                         o1 \in NetOutcomes, o2 \in NetOutcomes, o3 \in NetOutcomes}
          [] args.action = "create_pr" ->
                {create_pr_branch(args, envOwner, envRepo, oa, ob, oc, od) :
                    oa \in NetOutcomes, ob \in NetOutcomes,
                    oc \in NetOutcomes, od \in NetOutcomes}
          [] args.action = "list_branches" ->
                IF Truthy(repo) = None
                THEN {Plain("github", [ok |-> FALSE, error |-> "missing_repo"])}
                ELSE {OfGithub(list_branches(owner, repo, o)) : o \in NetOutcomes}
          [] OTHER ->
                {Plain("github", [ok |-> FALSE, error |-> "unknown_action"])}

\* tool == "repo", action == "fix_repo"
fix_repo_branch(o1, o2) ==
    LET tests == run_shell("pytest -q", o1)
        lint  == run_shell("flake8 .", o2)
    IN  IF tests.raised
        THEN Effect(TRUE, None, <<tests>>, <<>>)
        ELSE Effect(FALSE,
                    ToolResult("repo",
                               [tests |-> tests.result[1],
                                lint |-> IF lint.raised
                                         THEN [ok |-> FALSE, error |-> "flake8_not_available"]
                                         ELSE lint.result[1]]),
                    <<tests, lint>>, <<>>)

\* tool_node(state): tc is state["tool_call"], None or Some(call)
tool_node(tc, envOwner, envRepo) ==
    IF tc = None THEN {NoEffect}
    ELSE LET tool == tc[1].tool
             args == tc[1].args
         IN  IF tool = "shell"
             THEN {shell_branch(args, o) : o \in ProcOutcomes}
             ELSE IF tool = "file" /\ args.action = "read"
             THEN {file_read_branch(args, o) : o \in FileOutcomes}
             ELSE IF tool = "file" /\ args.action = "write"
             THEN {file_write_branch(args, o) : o \in FileOutcomes}
             ELSE IF tool = "github"
             THEN github_branch(args, envOwner, envRepo)
             ELSE IF tool = "repo" /\ args.action = "fix_repo"
             THEN {fix_repo_branch(o1, o2) : o1 \in ProcOutcomes, o2 \in ProcOutcomes}
             ELSE IF tool = "repo"
             THEN {Plain("repo", [ok |-> FALSE, error |-> "unknown_repo_action"])}
             ELSE {NoEffect}

(***************************************************************************)
(* Messages, normalize_message and llm_node.  A canonical message is       *)
(* [kind |-> "message", role, content]; the other raw shapes the           *)
(* normaliser accepts are a mapping [kind |-> "dict", role, content] and a *)
(* bare string [kind |-> "str", content].                                  *)
(***************************************************************************)
HumanMessage(content) == [kind |-> "message", role |-> "user", content |-> content]

AIMessage(content) == [kind |-> "message", role |-> "assistant", content |-> content]

SystemMessage(content) == [kind |-> "message", role |-> "system", content |-> content]

normalize_message(m) ==
    CASE m.kind = "message" -> m
      [] m.kind = "dict" ->
            IF Lower(m.role) \in {"user", "human"} THEN HumanMessage(m.content)
            ELSE IF Lower(m.role) \in {"assistant", "ai"} THEN AIMessage(m.content)
            ELSE SystemMessage(IF m.content # "" THEN m.content ELSE "{...}")
      [] m.kind = "str" -> HumanMessage(m.content)
      [] OTHER -> SystemMessage("...")

MaxReply == 2

\* what one entry of the model's answer may be
ReplyItems ==
    {AIMessage("Done."), AIMessage(""), [kind |-> "dict", role |-> "ai", content |-> "ok"]}

\* what llm.ainvoke may do: raise, return one message, or return a list (or
\* an object or mapping with a "messages" entry) of 0..MaxReply entries
LlmOutcomes ==
    {[kind |-> "raise"]}
    \cup {[kind |-> "single", value |-> m] : m \in ReplyItems}
    \cup {[kind |-> "list", value |-> l] :
            l \in UNION {[1..n -> {AIMessage("Done."), AIMessage("")}] : n \in 0..MaxReply}}

\* llm_node(state): the value of the "messages" key it returns
llm_node(reply) ==
    IF reply.kind = "raise"
    THEN <<SystemMessage("LLM call failed: error")>>
    ELSE LET returned == IF reply.kind = "list" THEN reply.value ELSE <<reply.value>>
         IN  [i \in 1..Len(returned) |-> normalize_message(returned[i])]

(***************************************************************************)
(* llm_node's TOOL_OUTPUT message: json.dumps of the tool result, cut to   *)
(* its first 2000 characters and "..." when it is longer.  The rendering   *)
(* is that of the results of the shell tool, whose standard output can be  *)
(* of any length.                                                          *)
(***************************************************************************)

\* json.dumps of one character of a string
EscapeChar(c) ==
    CASE c = "\"" -> "\\\""
      [] c = "\\" -> "\\\\"
      [] c = "\n" -> "\\n"
      [] OTHER -> c

\* json.dumps of the characters lo..hi of s
RECURSIVE EscapeRange(_, _, _)
EscapeRange(s, lo, hi) ==
    IF lo > hi THEN ""
    ELSE IF lo = hi THEN EscapeChar(Char(s, lo))
    ELSE EscapeRange(s, lo, (lo + hi) \div 2) \o EscapeRange(s, (lo + hi) \div 2 + 1, hi)

JsonString(s) == "\"" \o EscapeRange(s, 1, Len(s)) \o "\""

JsonBool(b) == IF b THEN "true" ELSE "false"

\* json.dumps of a mapping run_shell returns, keys in insertion order
JsonShellResult(r) ==
    "{\"ok\": " \o JsonBool(r.ok)
        \o (IF "error" \in DOMAIN r THEN ", \"error\": " \o JsonString(r.error) ELSE "")
        \o ", \"stdout\": " \o JsonString(r.stdout)
        \o ", \"stderr\": " \o JsonString(r.stderr) \o "}"

\* json.dumps(tool_result, default=str) of {"tool": "shell", "result": res}
JsonDumps(tr) ==
    "{\"tool\": " \o JsonString(tr.tool)
        \o ", \"result\": " \o JsonShellResult(tr.result) \o "}"

\* the longest rendering that is put in the prompt whole
MaxToolOutput == 2000

\* a variant of Truncate that cuts one character late
TruncateLate(text) ==
    IF Len(text) > MaxToolOutput + 1
    THEN SubSeq(text, 1, MaxToolOutput + 1) \o "..."
    ELSE text

\* if len(truncated) > 2000: truncated = truncated[:2000] + "..."
Truncate(text) ==
    IF Len(text) > MaxToolOutput
    THEN SubSeq(text, 1, MaxToolOutput) \o "..."
    ELSE text

\* the content of the message llm_node appends for a tool result
ToolOutputContent(tr) == "TOOL_OUTPUT: " \o Truncate(JsonDumps(tr))

\* n times the string s
RECURSIVE Rep(_, _)
Rep(s, n) ==
    IF n = 0 THEN ""
    ELSE Rep(s, n \div 2) \o Rep(s, n \div 2) \o (IF n % 2 = 1 THEN s ELSE "")

\* the lengths of the long outputs of a process
MinOut == 1924

MaxOut == 1938

\* what a process may print: a few characters, or a long text that ends in
\* a letter or in a character json.dumps escapes
Outputs ==
    {"", "out", "say \"hi\""}
        \cup {Rep("a", n - 1) \o c : n \in MinOut..MaxOut, c \in {"a", "\"", "\\", "\n"}}

\* the tool results of the shell tool that llm_node may be given
ShellResults ==
    {[tool |-> "shell", result |-> [ok |-> TRUE, stdout |-> out, stderr |-> ""]] :
        out \in Outputs}
    \cup {[tool |-> "shell",
           result |-> [ok |-> FALSE, error |-> "exec_error", stdout |-> "", stderr |-> err]] :
            err \in Outputs}

(***************************************************************************)
(* The inputs of a turn.                                                   *)
(***************************************************************************)

\* phrases that trigger the router's rules (one or two for each rule), and
\* one phrase that triggers none
Triggers ==
    {"read file", "write file", "add file", "create repo", "list repos",
     "update readme", "create pr", "branches", "push my code", "fix my repo",
     "run:", "git push", "hello"}

\* paths, commands and other arguments that follow a trigger
Arguments ==
    {"notes.txt", "../x", "/etc/passwd", "a/../../x", "lnk/x", "../x: hi",
     "docs/a.txt: hi", "o/r from f to m", "ls -la", "rm -rf /", "echo 'q",
     "git push origin main", "Push Code"}

\* the user messages of the model: a trigger, alone or followed by another
\* trigger or by an argument
Messages ==
    Triggers \cup {t \o " " \o u : t \in Triggers, u \in Triggers \cup Arguments}

\* the conversation stored so far, of which a chat holds a prefix
StoredChat ==
    <<[role |-> "user", content |-> "create repo demo"],
      [role |-> "agent", content |-> "Done."],
      [role |-> "user", content |-> "hi"]>>

MaxStored == 1

\* tool calls a caller of the compiled graph may seed its input state with
SeedCalls ==
    {None,
     Some([tool |-> "shell", args |-> [NoArgs EXCEPT !.action = "exec",
                                                     !.command = Some("ls")]]),
     Some([tool |-> "shell", args |-> [NoArgs EXCEPT !.action = "push_intent",
                                                     !.command = Some("git push origin main")]]),
     Some([tool |-> "file", args |-> [NoArgs EXCEPT !.action = "write",
                                                    !.path = Some("/tmp/x"),
                                                    !.content = Some("hi")]]),
     Some([tool |-> "file", args |-> [NoArgs EXCEPT !.action = "delete"]]),
     Some([tool |-> "github", args |-> [NoArgs EXCEPT !.action = "delete_repo"]]),
     Some([tool |-> "repo", args |-> [NoArgs EXCEPT !.action = "deploy"]]),
     Some([tool |-> "mail", args |-> NoArgs])}

\* tool results a caller may seed its input state with
SeedResults ==
    {None, Some([tool |-> "shell", result |-> [ok |-> TRUE, stdout |-> "old", stderr |-> ""]])}

\* last messages of the input states given to the compiled graph directly
InvokeMessages == {"hello", "run: ls", "push my code", "read file ../x", "fix my repo"}

\* the input states given to the compiled graph directly
InvokeInputs ==
    {[messages |-> ms, tool_call |-> tc, tool_result |-> tr] :
        ms \in {<<>>} \cup {<<HumanMessage(m)>> : m \in InvokeMessages},
        tc \in SeedCalls, tr \in SeedResults}

(***************************************************************************)
(* The state: the graph's channels, the position of the turn, what the     *)
(* executor did to the outside, and the streaming endpoint.                *)
(***************************************************************************)
VARIABLES
    envOwner,     \* os.getenv("GITHUB_OWNER"): None or Some(text)
    envRepo,      \* os.getenv("GITHUB_REPO")
    db,           \* the chat document's "messages" array
    mode,         \* "none", "invoke" (agent.invoke) or "stream" (GET /agent/stream)
    input,        \* the input state the graph was started with (None before)
    pc,           \* "idle", the node to run next, "END", or "raised"
    messages,     \* channel "messages"
    tool_call,    \* channel "tool_call": None or Some(call)
    tool_result,  \* channel "tool_result": None or Some(result)
    ran,          \* the nodes run so far, in order
    routed,       \* the update router_node returned: None, or Some(call)
    reply,        \* the update llm_node returned: None before, then Some(messages)
    calls,        \* the calls of run_shell, read_file and write_file made
    net,          \* network requests sent
    step,         \* the step agent.astream has yielded and the generator not yet handled
    stream,       \* "none", "open", "closed", or "http_error" (no stream at all)
    events,       \* the events sent to the client, in order
    summarized,   \* a tool result llm_node is given on its own: None or Some(result)
    tool_output   \* the content of the TOOL_OUTPUT message built for it (None before)

vars ==
    <<envOwner, envRepo, db, mode, input, pc, messages, tool_call, tool_result,
      ran, routed, reply, calls, net, step, stream, events, summarized, tool_output>>

env == <<envOwner, envRepo>>

channels == <<messages, tool_call, tool_result>>

effects == <<calls, net>>

prompting == <<summarized, tool_output>>

\* no request has been made
Idle ==
    /\ \E e \in {<<None, None>>, <<Some("me"), Some("proj")>>} :
            envOwner = e[1] /\ envRepo = e[2]
    /\ \E n \in 0..MaxStored : db = SubSeq(StoredChat, 1, n)
    /\ mode = "none"
    /\ input = None
    /\ pc = "idle"
    /\ messages = <<>>
    /\ tool_call = None
    /\ tool_result = None
    /\ ran = <<>>
    /\ routed = None
    /\ reply = None
    /\ calls = <<>>
    /\ net = <<>>
    /\ step = None
    /\ stream = "none"
    /\ events = <<>>

Init ==
    /\ Idle
    /\ summarized = None
    /\ tool_output = None

(***************************************************************************)
(* The compiled graph: START -> router_node -> tool_node -> llm_node ->    *)
(* END.  Every channel keeps the last value written to it; a node that     *)
(* returns no value for a channel leaves it as it is.  agent.astream       *)
(* yields one step {node name: update} after each node, and runs the next  *)
(* node only when the generator asks for the next step.                    *)
(***************************************************************************)

\* the step yielded after a node: None unless the turn is streamed
StepOf(node, update) == IF mode = "stream" THEN Some(node :> update) ELSE None

\* the generator is ready for the next step (a turn that is not streamed
\* has no generator)
Pulled == mode = "invoke" \/ (stream = "open" /\ step = None)

\* graph.add_edge(...): the node that follows
NextNode(node) ==
    CASE node = "START" -> "router_node"
      [] node = "router_node" -> "tool_node"
      [] node = "tool_node" -> "llm_node"
      [] node = "llm_node" -> "END"

\* agent.invoke(input) / agent.astream(input): the graph starts
StartGraph(in) ==
    /\ input' = Some(in)
    /\ messages' = in.messages
    /\ tool_call' = in.tool_call
    /\ tool_result' = in.tool_result
    /\ pc' = NextNode("START")

\* a caller runs the compiled graph on an input state of its own
AgentInvoke ==
    /\ pc = "idle" /\ mode = "none"
    /\ \E in \in InvokeInputs : StartGraph(in)
    /\ mode' = "invoke"
    /\ UNCHANGED <<env, prompting, db, ran, routed, reply, effects, step, stream, events>>

RouterNode ==
    /\ pc = "router_node" /\ Pulled
    /\ LET out == router_node(messages, envOwner, envRepo)
       IN  /\ routed' = out
           /\ tool_call' = IF out = None THEN tool_call ELSE out
           /\ step' = StepOf("router_node",
                             IF out = None THEN <<>> ELSE [tool_call |-> out[1]])
    /\ ran' = Append(ran, "router_node")
    /\ pc' = NextNode("router_node")
    /\ UNCHANGED <<env, prompting, db, mode, input, messages, tool_result, reply, effects,
                   stream, events>>

ToolNode ==
    /\ pc = "tool_node" /\ Pulled
    /\ \E eff \in tool_node(tool_call, envOwner, envRepo) :
        /\ calls' = calls \o eff.calls
        /\ net' = net \o eff.net
        /\ IF eff.raised
           THEN /\ pc' = "raised"
                /\ UNCHANGED <<tool_result, step>>
           ELSE /\ pc' = NextNode("tool_node")
                /\ tool_result' = eff.result
                /\ step' = StepOf("tool_node", [tool_result |-> eff.result])
    /\ ran' = Append(ran, "tool_node")
    /\ UNCHANGED <<env, prompting, db, mode, input, messages, tool_call, routed, reply,
                   stream, events>>

LlmNode ==
    /\ pc = "llm_node" /\ Pulled
    /\ \E r \in LlmOutcomes :
        /\ reply' = Some(llm_node(r))
        /\ messages' = llm_node(r)
        /\ step' = StepOf("llm_node", [messages |-> llm_node(r)])
    /\ ran' = Append(ran, "llm_node")
    /\ pc' = NextNode("llm_node")
    /\ UNCHANGED <<env, prompting, db, mode, input, tool_call, tool_result, routed, effects,
                   stream, events>>

(***************************************************************************)
(* server.py: GET /agent/stream and its event_generator.                   *)
(***************************************************************************)
Event(kind, data) == [event |-> kind, data |-> data]

\* the history agent_stream builds from the stored messages
HistoryOf(stored) ==
    [i \in 1..Len(stored) |->
        IF stored[i].role = "user" THEN HumanMessage(stored[i].content)
        ELSE SystemMessage(stored[i].content)]

\* agent_stream(message, chat_id): the request up to the streaming response.
\* id tells what chat_id is: "valid" (a chat's id), "unknown" (a well-formed
\* id of no chat) or "malformed"; dbok whether the database takes the write.
AgentStream ==
    /\ pc = "idle" /\ mode = "none"
    /\ mode' = "stream"
    /\ \E message \in Messages, id \in {"valid", "unknown", "malformed"},
          dbok \in BOOLEAN :
        CASE id = "malformed" ->
                /\ events' = <<Event("error", "Invalid chat_id")>>
                /\ stream' = "closed"
                /\ UNCHANGED <<db, input, pc, channels>>
          [] id = "unknown" ->
                /\ events' = <<Event("error", "Chat not found")>>
                /\ stream' = "closed"
                /\ UNCHANGED <<db, input, pc, channels>>
          [] id = "valid" /\ ~dbok ->
                /\ stream' = "http_error"
                /\ UNCHANGED <<db, input, pc, channels, events>>
          [] id = "valid" /\ dbok ->
                /\ StartGraph([messages |-> Append(HistoryOf(db), HumanMessage(message)),
                               tool_call |-> None, tool_result |-> None])
                /\ db' = Append(db, [role |-> "user", content |-> message])
                /\ stream' = "open"
                /\ UNCHANGED events
    /\ UNCHANGED <<env, prompting, ran, routed, reply, effects, step>>

HasContent(m) == m.content # ""

\* the events and the stored messages of the first n messages of msgs
MessageEvents(msgs, n) == [i \in 1..n |-> Event("message", [content |-> msgs[i].content])]

AgentRows(msgs, n) == [i \in 1..n |-> [role |-> "agent", content |-> msgs[i].content]]

\* one turn of the loop `async for step in agent.astream(...)`; fail is the
\* number of the database write that raises (0: none does)
OnStep ==
    /\ stream = "open" /\ step # None
    /\ LET s     == step[1]
           tcs   == IF "tool_call" \in DOMAIN s
                    THEN <<Event("tool_call", s["tool_call"])>> ELSE <<>>
           outs  == IF "tool_result" \in DOMAIN s
                    THEN <<Event("tool_output", s["tool_result"])>> ELSE <<>>
           msgs  == IF "llm_node" \in DOMAIN s
                    THEN SelectSeq(s["llm_node"].messages, HasContent) ELSE <<>>
       IN  \E fail \in 0..Len(msgs) :
            IF fail = 0
            THEN /\ events' = events \o tcs \o outs \o MessageEvents(msgs, Len(msgs))
                 /\ db' = db \o AgentRows(msgs, Len(msgs))
                 /\ stream' = "open"
            ELSE /\ events' = events \o tcs \o outs \o MessageEvents(msgs, fail)
                                \o <<Event("error", [error |-> "db"])>>
                 /\ db' = db \o AgentRows(msgs, fail - 1)
                 /\ stream' = "closed"
    /\ step' = None
    /\ UNCHANGED <<env, prompting, mode, input, pc, channels, ran, routed, reply, effects>>

\* the graph is done: the generator leaves the loop and sends the last event
StreamEnd ==
    /\ stream = "open" /\ step = None /\ pc = "END"
    /\ events' = Append(events, Event("end", "done"))
    /\ stream' = "closed"
    /\ UNCHANGED <<env, prompting, db, mode, input, pc, channels, ran, routed, reply, effects, step>>

\* a node raised: agent.astream raises into the generator's except clause
StreamError ==
    /\ stream = "open" /\ step = None /\ pc = "raised"
    /\ events' = Append(events, Event("error", [error |-> "node"]))
    /\ stream' = "closed"
    /\ UNCHANGED <<env, prompting, db, mode, input, pc, channels, ran, routed, reply, effects, step>>

Next ==
    \/ AgentInvoke
    \/ AgentStream
    \/ RouterNode
    \/ ToolNode
    \/ LlmNode
    \/ OnStep
    \/ StreamEnd
    \/ StreamError

Spec == Init /\ [][Next]_vars

(***************************************************************************)
(* llm_node's tool output message on its own: the tool result is drawn     *)
(* from the results of the shell tool, and the message is built for it.    *)
(***************************************************************************)
InitPrompt ==
    /\ Idle
    /\ summarized \in {Some(tr) : tr \in ShellResults}
    /\ tool_output = None

\* llm_node, lines `if tool_result:` to the append of the message
BuildToolOutput ==
    /\ summarized # None /\ tool_output = None
    /\ tool_output' = Some(ToolOutputContent(summarized[1]))
    /\ UNCHANGED <<env, summarized, db, mode, input, pc, channels, ran, routed, reply,
                   effects, step, stream, events>>

NextPrompt == BuildToolOutput

SpecPrompt == InitPrompt /\ [][NextPrompt]_vars

(***************************************************************************)
(* The properties.                                                         *)
(***************************************************************************)
Stages == <<"router_node", "tool_node", "llm_node">>

IsPrefixOf(a, b) == Len(a) <= Len(b) /\ a = SubSeq(b, 1, Len(a))

Ran(node) == node \in Range(ran)

\* the argument vectors of all processes created so far
SpawnedSet == UNION {Range(calls[i].spawned) : i \in DOMAIN calls}

\* the last message of the input state, stripped and lower-cased, as the
\* router reads it ("" when there is none)
RoutedText ==
    IF input = None \/ input[1].messages = <<>> THEN ""
    ELSE Lower(Strip(input[1].messages[Len(input[1].messages)].content))

\* the numbers of the rules whose patterns the routed text satisfies
MatchingRules == {n \in 1..10 : MatchesRule(RoutedText, n)}

\* C1: every turn runs router_node, tool_node and llm_node, each once and in
\* that order, and ends in the terminal state END: the nodes run so far are
\* always a prefix of the three stages, no turn stops before END, and at END
\* all three have run.
C1_LinearTraversal ==
    /\ IsPrefixOf(ran, Stages)
    /\ pc # "raised"
    /\ (pc = "END" => ran = Stages)

\* C2: the executor never raises: once tool_node has run, no exception has
\* left it, nor any call of run_shell it made.
C2_ExecutorNeverRaises ==
    Ran("tool_node") =>
        /\ pc # "raised"
        /\ \A i \in DOMAIN calls : ~calls[i].raised

\* C3: every turn ends with at least one new message: the summarizer returns
\* at least one message, and a streamed turn whose stream has closed has sent
\* at least one `message` event.
C3_AlwaysAMessage ==
    /\ (reply # None => Len(reply[1]) >= 1)
    /\ (stream = "closed" /\ input # None =>
            \E i \in DOMAIN events : events[i].event = "message")

\* C4: whitelist rejection is total: every call of run_shell whose trimmed
\* command starts with no whitelist prefix returned ok=false with the error
\* "command_not_whitelisted" and created no process.
C4_WhitelistTotal ==
    \A i \in DOMAIN calls :
        (/\ calls[i].fn = "run_shell"
         /\ \A k \in DOMAIN WHITELIST : ~StartsWith(Strip(calls[i].arg), WHITELIST[k]))
        => /\ ~calls[i].raised
           /\ calls[i].result[1].ok = FALSE
           /\ calls[i].result[1].error = "command_not_whitelisted"
           /\ calls[i].spawned = <<>>

\* a command that is not whitelisted was given to run_shell and rejected,
\* after the test command of fix_repo had been run as a process
C4_Witness ==
    /\ Len(calls) = 2
    /\ calls[1].spawned # <<>>
    /\ calls[2].fn = "run_shell"
    /\ ~Whitelisted(Strip(calls[2].arg))
    /\ calls[2].result[1].error = "command_not_whitelisted"

\* C5: no turn issues a push: no process created begins with `git push`; when
\* the router returns for a message whose first matching rule is push-intent,
\* its call is shell/push_intent with the command `git status -b`; and a turn
\* routed to push_intent runs no other command than that one.
C5_NeverPushes ==
    /\ \A argv \in SpawnedSet : ~(Len(argv) >= 2 /\ argv[1] = "git" /\ argv[2] = "push")
    /\ (pc = "tool_node" /\ MatchingRules # {} /\ Min(MatchingRules) = 8) =>
            /\ routed # None
            /\ routed[1].tool = "shell"
            /\ routed[1].args.action = "push_intent"
            /\ routed[1].args.command = Some("git status -b")
    /\ (routed # None /\ routed[1].args.action = "push_intent") =>
            SpawnedSet \subseteq {<<"git", "status", "-b">>}

\* a push-intent message was routed and its status command was run
C5_Witness ==
    /\ routed # None
    /\ routed[1].args.action = "push_intent"
    /\ SpawnedSet = {<<"git", "status", "-b">>}

\* C6: when the last message of the input state matches no rule (or there is
\* no message), the tool call after the router is empty, the executor does
\* nothing to the outside, and the tool result is empty when the summarizer
\* runs.
C6_NoMatchNoTool ==
    (input # None /\ MatchingRules = {}) =>
        /\ (Ran("router_node") => tool_call = None)
        /\ calls = <<>>
        /\ net = <<>>
        /\ (pc \in {"llm_node", "END"} => tool_result = None)

\* the tool and the action of the ten rules, in the order of the specification
RuleTool ==
    <<"file", "file", "github", "github", "github", "github", "github",
      "shell", "repo", "shell">>

RuleAction ==
    <<"read", "write", "create_repo", "list_repos", "update_file", "create_pr",
      "list_branches", "push_intent", "fix_repo", "exec">>

\* C7: when the router returns, its tool call is that of the lowest-numbered
\* rule whose patterns the message satisfies, and none when no rule matches.
C7_FirstMatchWins ==
    pc = "tool_node" =>
        IF MatchingRules = {} THEN routed = None
        ELSE /\ routed # None
             /\ routed[1].tool = RuleTool[Min(MatchingRules)]
             /\ routed[1].args.action = RuleAction[Min(MatchingRules)]

\* a message that satisfies the repository-create and the branch-listing
\* rule was routed to create_repo
C7_Witness ==
    /\ pc = "tool_node"
    /\ routed # None
    /\ routed[1].args.action = "create_repo"
    /\ {3, 7} \subseteq MatchingRules

\* C8: every non-empty tool result the executor produces carries a top-level
\* boolean `ok`.
C8_ResultCarriesOk ==
    (Ran("tool_node") /\ pc # "raised" /\ tool_result # None) =>
        /\ "ok" \in DOMAIN tool_result[1].result
        /\ tool_result[1].result.ok \in BOOLEAN

\* C9: file access is confined to the project root: a call of read_file or
\* write_file whose path resolves outside the root returned ok=false with the
\* permission error and made no file system operation, and every file system
\* operation made is at or below the root.
C9_ConfinedToRoot ==
    \A i \in DOMAIN calls :
        calls[i].fn \in {"read_file", "write_file"} =>
            /\ \A j \in DOMAIN calls[i].io :
                    IsPrefixOf(PROJECT_ROOT, calls[i].io[j].at)
            /\ ~IsPrefixOf(PROJECT_ROOT, Resolve(calls[i].arg)) =>
                    /\ calls[i].result[1].ok = FALSE
                    /\ calls[i].result[1].error = PermissionText
                    /\ calls[i].io = <<>>

\* a path with `..` components that leaves the root was given to a file
\* operation and refused
C9_Witness ==
    \E i \in DOMAIN calls :
        /\ calls[i].fn \in {"read_file", "write_file"}
        /\ SearchPlain(calls[i].arg, "..")
        /\ ~IsPrefixOf(PROJECT_ROOT, Resolve(calls[i].arg))
        /\ calls[i].result[1].error = PermissionText

\* C10: in a streamed turn whose router emitted a tool call, the client gets
\* a `tool_call` event with that call and then a `tool_output` event, both
\* before any `message` event and before the `end` event.
C10_ToolEventsFirst ==
    (routed # None /\ \E e \in DOMAIN events : events[e].event = "end") =>
        \E i, j \in DOMAIN events :
            /\ i < j
            /\ events[i].event = "tool_call"
            /\ events[i].data = routed[1]
            /\ events[j].event = "tool_output"
            /\ \A k \in 1..j : events[k].event \notin {"message", "end"}

\* C11: every event stream is closed by a final `end` event: when the stream
\* of a request has closed, the last event sent is `end`, and no event ever
\* follows an `end`.
C11_StreamEndsWithEnd ==
    /\ stream = "closed" =>
            /\ events # <<>>
            /\ events[Len(events)].event = "end"
    /\ \A i \in DOMAIN events : events[i].event = "end" => i = Len(events)

\* C12: the history is append-only: in the final state of a turn the channel
\* `messages` is the input `messages` followed by the messages the summarizer
\* returned.
C12_HistoryAppendOnly ==
    pc = "END" => messages = input[1].messages \o reply[1]

\* the requests of a repository listing whose pages all came back as lists
ListedPages ==
    /\ net # <<>>
    /\ \A i \in DOMAIN net :
            /\ net[i].method = "GET"
            /\ net[i].url = "/user/repos"
            /\ net[i].answer \in {"full", "short", "empty"}

\* the entries of n pages, all full but the last, which has last entries
EntriesOf(n, last) ==
    [j \in 1..((n - 1) * per_page + last) |->
        [page |-> ((j - 1) \div per_page) + 1, idx |-> ((j - 1) % per_page) + 1]]

\* C13: repository listing terminates and collects every entry once: when
\* every page came back as a list, list_repos has asked for the pages 1, 2,
\* ... in order, each once, has stopped at the first page shorter than 100,
\* and returns ok=true with the entries of all pages, each once and in page
\* order, and their count as total.
C13_ListsEveryRepoOnce ==
    (ListedPages /\ Ran("tool_node")) =>
        /\ \A i \in DOMAIN net : net[i].page = i
        /\ \A i \in DOMAIN net : (i < Len(net)) <=> (net[i].answer = "full")
        /\ tool_result # None
        /\ tool_result[1].result.ok = TRUE
        /\ tool_result[1].result.repositories =
                EntriesOf(Len(net), PageLen(net[Len(net)].answer))
        /\ tool_result[1].result.total = Len(tool_result[1].result.repositories)
        /\ Cardinality(Range(tool_result[1].result.repositories))
                = Len(tool_result[1].result.repositories)

\* full pages followed by a shorter, non-empty one were listed
C13_Witness ==
    /\ ListedPages
    /\ Ran("tool_node")
    /\ Len(net) = MaxPages
    /\ net[Len(net)].answer = "short"
    /\ tool_result # None
    /\ tool_result[1].result.total = (MaxPages - 1) * per_page + ShortPage

\* C14: shell execution is time-bounded: a call of run_shell that created a
\* process never waited past the deadline; if the process had not finished at
\* the deadline it was killed and the call returned ok=false with the error
\* "timeout"; if it finished before the deadline it was not killed and its
\* output was returned with ok=true.
C14_ShellTimeBounded ==
    \A i \in DOMAIN calls :
        (calls[i].fn = "run_shell" /\ calls[i].spawned # <<>>) =>
            /\ calls[i].waited <= timeout
            /\ calls[i].runs > timeout =>
                    /\ calls[i].killed = calls[i].spawned
                    /\ calls[i].result # None
                    /\ calls[i].result[1].ok = FALSE
                    /\ calls[i].result[1].error = "timeout"
            /\ calls[i].runs < timeout =>
                    /\ calls[i].killed = <<>>
                    /\ calls[i].result # None
                    /\ calls[i].result[1].ok = TRUE
                    /\ calls[i].result[1].stdout = "out"

\* a whitelisted command ran past the deadline and was killed
C14_Witness ==
    \E i \in DOMAIN calls :
        /\ calls[i].fn = "run_shell"
        /\ calls[i].runs > timeout
        /\ calls[i].killed # <<>>
        /\ calls[i].result[1].error = "timeout"

\* C15: repo/fix_repo runs the test command and then the lint command, both
\* as processes: after tool_node has run a fix_repo call, run_shell was
\* called for the test command and then for the lint command, each call
\* created a process or reported that none could be created, and the result
\* holds the test and the lint sub-result.
C15_FixRepoRunsTestsAndLint ==
    (/\ Ran("tool_node") /\ pc # "raised"
     /\ tool_call # None
     /\ tool_call[1].tool = "repo"
     /\ tool_call[1].args.action = "fix_repo") =>
        /\ Len(calls) = 2
        /\ calls[1].arg = "pytest -q"
        /\ calls[2].arg = "flake8 ."
        /\ \A i \in 1..2 :
                \/ calls[i].spawned # <<>>
                \/ calls[i].result[1].error = "exec_error"
        /\ tool_result # None
        /\ tool_result[1].result.tests = calls[1].result[1]
        /\ tool_result[1].result.lint = calls[2].result[1]

\* the rendering that was put in the TOOL_OUTPUT message, as the prompt has it
PutInPrompt == From(tool_output[1], Len("TOOL_OUTPUT: ") + 1)

\* C16: tool-result truncation: a JSON rendering longer than 2000 characters
\* is put in the prompt as its first 2000 characters followed by "...", one
\* of 2000 characters or fewer is put in unchanged, and truncating what was
\* put in the prompt once more gives the same string.
C16_TruncationExactAndIdempotent ==
    tool_output # None =>
        /\ StartsWith(tool_output[1], "TOOL_OUTPUT: ")
        /\ Len(JsonDumps(summarized[1])) > 2000 =>
                /\ Len(PutInPrompt) = 2003
                /\ SubSeq(PutInPrompt, 1, 2000) = SubSeq(JsonDumps(summarized[1]), 1, 2000)
                /\ SubSeq(PutInPrompt, 2001, 2003) = "..."
        /\ Len(JsonDumps(summarized[1])) <= 2000 => PutInPrompt = JsonDumps(summarized[1])
        /\ Truncate(PutInPrompt) = PutInPrompt

\* a rendering of 2001 characters was cut to its first 2000 and the marker
C16_Witness ==
    /\ tool_output # None
    /\ Len(JsonDumps(summarized[1])) = 2001
    /\ Len(PutInPrompt) = 2003

\* the last message of the input state, as it was sent ("" when none)
LastText ==
    IF input = None \/ input[1].messages = <<>> THEN ""
    ELSE input[1].messages[Len(input[1].messages)].content

\* C17: when the router returns for a message "<verb> file <path>: <content>"
\* with <verb> one of write, create, add, update, edit, its call is
\* file/write with that path and that content.
C17_WriteFileExtraction ==
    pc = "tool_node" =>
        \A verb \in {"write", "create", "add", "update", "edit"},
           path \in {"docs/a.txt", "../x"}, content \in {"hi"} :
            LastText = verb \o " file " \o path \o ": " \o content =>
                /\ routed # None
                /\ routed[1].tool = "file"
                /\ routed[1].args.action = "write"
                /\ routed[1].args.path = Some(path)
                /\ routed[1].args.content = Some(content)

\* C18: the result of shell/push_intent reports ok=true in every case: after
\* tool_node has run a push_intent call and returned, the top-level ok of
\* the tool result is true whatever the status command did, and what
\* run_shell returned is the nested status.
C18_PushIntentAlwaysOk ==
    (/\ Ran("tool_node") /\ pc # "raised"
     /\ tool_call # None
     /\ tool_call[1].tool = "shell"
     /\ tool_call[1].args.action = "push_intent") =>
        /\ tool_result # None
        /\ tool_result[1].tool = "shell"
        /\ tool_result[1].result.ok = TRUE
        /\ Len(calls) = 1
        /\ tool_result[1].result.status = calls[1].result[1]

\* a push_intent call whose command the whitelist rejected was reported
\* with ok=true
C18_Witness ==
    /\ Ran("tool_node")
    /\ tool_call # None
    /\ tool_call[1].args.action = "push_intent"
    /\ tool_result # None
    /\ tool_result[1].result.ok = TRUE
    /\ tool_result[1].result.status.ok = FALSE
    /\ tool_result[1].result.status.error = "command_not_whitelisted"

====
